---------------------------- MODULE Spec2Model ----------------------------
(* DOMElement (src/src/display/DOMElement.js): a display-list node that     *)
(* keeps the style of one HTML element in step with the node's concatenated *)
(* display properties.  The stage drives it: tick, canvas draw, "drawend".  *)
EXTENDS Integers, Sequences, FiniteSets, TLC

VARIABLES
    htmlElement,  \* this.htmlElement: an element or Null
    oldProps,     \* this._oldProps: NullProps or [matrix, alpha]
    props,        \* what getConcatenatedDisplayProps(this._props) returns now
    style,        \* style of every HTML element
    attached,     \* this.stage is non-null
    listeners,    \* the stage's "drawend" listener list
    pc,           \* position of the stage inside its update: idle, or drawn (canvas
                  \* drawn, "drawend" not yet dispatched)
    ticks,        \* ticks that reached the node on its stage since the last drawend
    sinceSync,    \* history, kept when its field "on" is set: whether _handleDrawEnd
                  \* ever ran, and whether the snapshot and htmlElement were changed
                  \* since its last run
    last,         \* history: what the last operation did
    mouseEnabled, \* this.mouseEnabled
    peer          \* a second DOMElement of the same stage: its htmlElement,
                  \* _oldProps, snapshot and stage; NoPeer when there is none

vars == <<htmlElement, oldProps, props, style, attached, listeners, pc, ticks, sinceSync, last,
          mouseEnabled, peer>>

-----------------------------------------------------------------------------
(* Numbers.  A JavaScript number is modelled as an exact decimal            *)
(* +-(hi * 2^16 + lo + frac / 10^5), or NaN.  The pair (hi, lo) keeps the   *)
(* integer part inside the integer range of the checker while letting it     *)
(* exceed 32 bits, which the |0 conversions of the code truncate to.         *)

n == 10000

Base == 2 ^ 16

FracUnit == 10 ^ 5

Half == FracUnit \div 2

NaN == [nan |-> TRUE, neg |-> FALSE, hi |-> 0, lo |-> 0, frac |-> 0]

Num(neg, int, frac) == [nan |-> FALSE, neg |-> neg, hi |-> 0, lo |-> int, frac |-> frac]

IsZero(x) == x.hi = 0 /\ x.lo = 0 /\ x.frac = 0

\* x === y / x == y on numbers: NaN equals nothing, -0 equals 0
NumEq(x, y) ==
    /\ ~x.nan
    /\ ~y.nan
    /\ \/ IsZero(x) /\ IsZero(y)
       \/ x = y

\* a signed integer q * 2^16 + r with 0 <= r < 2^16 (q may be negative)
FloorPair(neg, q, r) ==
    IF ~neg THEN <<q, r>>
    ELSE IF r = 0 THEN <<-q, 0>>
    ELSE <<-q - 1, Base - r>>

\* the mathematical integer part (toward zero) of x * n
TruncTimesN(x) ==
    LET t == x.lo * n + (x.frac * n) \div FracUnit
    IN  FloorPair(x.neg, x.hi * n + t \div Base, t % Base)

\* mutant: Math.floor(x + 0.5) instead of the truncation toward zero
TruncPlusHalf_Floor(x) ==
    IF ~x.neg
    THEN IF x.frac >= Half
         THEN IF x.lo + 1 = Base THEN <<x.hi + 1, 0>> ELSE <<x.hi, x.lo + 1>>
         ELSE <<x.hi, x.lo>>
    ELSE IF x.frac > Half
         THEN IF x.lo + 1 = Base THEN FloorPair(TRUE, x.hi + 1, 0)
              ELSE FloorPair(TRUE, x.hi, x.lo + 1)
         ELSE FloorPair(TRUE, x.hi, x.lo)

\* the mathematical integer part (toward zero) of x + 0.5
TruncPlusHalf(x) ==
    IF ~x.neg
    THEN IF x.frac >= Half
         THEN IF x.lo + 1 = Base THEN <<x.hi + 1, 0>> ELSE <<x.hi, x.lo + 1>>
         ELSE <<x.hi, x.lo>>
    ELSE IF x.frac >= Half THEN FloorPair(TRUE, x.hi, x.lo)
    ELSE IF x.lo > 0 THEN FloorPair(TRUE, x.hi, x.lo - 1)
    ELSE IF x.hi > 0 THEN FloorPair(TRUE, x.hi - 1, Base - 1)
    ELSE <<0, 0>>

\* ToInt32 of an integer-valued number: the low 32 bits, read as signed
ToInt32(p) ==
    LET w == ((p[1] + Base \div 2) % Base) - Base \div 2
    IN  w * Base + p[2]

\* the signed 32-bit integer i as a pair
PairOfInt(i) == <<i \div Base, i % Base>>

\* (v*n|0)/n, as the count of 1/n units the quotient prints
LinearOut(v) == IF v.nan THEN 0 ELSE ToInt32(TruncTimesN(v))

\* (t+0.5|0)
TranslationOut(t) == IF t.nan THEN 0 ELSE ToInt32(TruncPlusHalf(t))

-----------------------------------------------------------------------------
(* The HTML elements and their style.                                       *)

Null == "null"

Elements == {"e1", "e2"}

\* the style of an element no code has written to
FreshStyle ==
    [position |-> "", transformOrigin |-> "", visibility |-> "",
     transform |-> <<>>, MozTransform |-> <<>>, opacity |-> <<>>]

\* constructor: the writes to htmlElement.style
ConstructedStyle ==
    [FreshStyle EXCEPT !.position = "absolute", !.transformOrigin = "0% 0%"]

-----------------------------------------------------------------------------
(* Matrix2D and DisplayProps values.                                        *)

Matrix(a, b, c, d, tx, ty) == [a |-> a, b |-> b, c |-> c, d |-> d, tx |-> tx, ty |-> ty]

\* Matrix2D.equals: every component compared with ===
MatrixEquals(m1, m2) ==
    /\ NumEq(m1.a, m2.a)
    /\ NumEq(m1.b, m2.b)
    /\ NumEq(m1.c, m2.c)
    /\ NumEq(m1.d, m2.d)
    /\ NumEq(m1.tx, m2.tx)
    /\ NumEq(m1.ty, m2.ty)

Identity == Matrix(Num(FALSE, 1, 0), Num(FALSE, 0, 0), Num(FALSE, 0, 0),
                   Num(FALSE, 1, 0), Num(FALSE, 0, 0), Num(FALSE, 0, 0))

NullProps == [isNull |-> TRUE]

\* a reference to the matrix object of the snapshot, which the node
\* recomputes in place: a holder of it sees the snapshot's current matrix
SnapshotMatrix == [alias |-> "props.matrix"]

\* the components seen through matrix m, a value or SnapshotMatrix, while the
\* snapshot's matrix is mtx
Deref(m, mtx) == IF m = SnapshotMatrix THEN mtx ELSE m

\* oldProps.matrix.copy(mtx): the cache's own matrix takes the components
MatrixCopy(mtx) == mtx

\* new DisplayProps(true, NaN): alpha NaN, identity matrix
NewDisplayProps == [matrix |-> Identity, alpha |-> NaN]

\* the text "matrix(a,b,c,d,tx" of line 209, as the numbers it prints
MatrixStr(mtx) ==
    <<"matrix(", LinearOut(mtx.a), LinearOut(mtx.b), LinearOut(mtx.c),
      LinearOut(mtx.d), TranslationOut(mtx.tx)>>

\* str + "," + (mtx.ty+0.5|0) + ")"
TransformText(mtx) == MatrixStr(mtx) \o <<TranslationOut(mtx.ty), ")">>

\* str + "px," + (mtx.ty+0.5|0) + "px)"
MozTransformText(mtx) == MatrixStr(mtx) \o <<"px", TranslationOut(mtx.ty), "px)">>

\* "" + (props.alpha*n|0)/n
OpacityText(alpha) == <<LinearOut(alpha)>>

-----------------------------------------------------------------------------
(* _handleDrawEnd, one step of the code per definition.                     *)

\* mutant: the guard on a missing element is left out
BindingMissing_Never(o) == FALSE

\* if (!o) { return; }
BindingMissing(o) == o = Null

\* let visibility = props.visible ? "visible" : "hidden";
VisibilityOf(p) == IF p.visible THEN "visible" ELSE "hidden"

\* if (visibility != style.visibility)
VisibilityDiffers(p, st) == VisibilityOf(p) # st.visibility

\* mutant: no early return for a hidden snapshot
ReturnsWhenHidden_Never(p) == FALSE

\* if (!props.visible) { return; }
ReturnsWhenHidden(p) == ~p.visible

\* mutant: the transform is written without comparing with the cache
MatrixChanged_Always(old, mtx) == TRUE

\* if (!oldMtx || !oldMtx.equals(mtx))
MatrixChanged(old, mtx) ==
    old = NullProps \/ ~MatrixEquals(Deref(old.matrix, mtx), mtx)

\* mutant: oldProps.matrix = mtx, the cache is made to hold the snapshot's
\* matrix object
CacheAfterMatrix_Alias(old, mtx) ==
    [(IF old = NullProps THEN NewDisplayProps ELSE old) EXCEPT !.matrix = SnapshotMatrix]

\* mutant: the cache is created but the written matrix is not stored in it
CacheAfterMatrix_Stale(old, mtx) == IF old = NullProps THEN NewDisplayProps ELSE old

\* the cache after the transform block: created on first use, matrix copied
CacheAfterMatrix(old, mtx) ==
    [(IF old = NullProps THEN NewDisplayProps ELSE old) EXCEPT !.matrix = MatrixCopy(mtx)]

\* mutant: the opacity block is skipped
AlphaChanged_Never(old, p) == FALSE

\* if (oldProps.alpha != props.alpha)
AlphaChanged(old, p) == ~NumEq(old.alpha, p.alpha)

\* the whole handler on binding state (o, old, p) and the element styles st:
\* the new styles and cache, the style properties written, the error thrown
HandleDrawEnd(o, old, p, st) ==
    IF BindingMissing(o)
    THEN [style |-> st, oldProps |-> old, writes |-> {}, error |-> "none"]
    ELSE IF o = Null
    THEN [style |-> st, oldProps |-> old, writes |-> {}, error |-> "TypeError"]
    ELSE
    LET visW  == VisibilityDiffers(p, st[o])
        st1   == IF visW THEN [st EXCEPT ![o].visibility = VisibilityOf(p)] ELSE st
        w1    == IF visW THEN {<<o, "visibility">>} ELSE {}
    IN  IF ReturnsWhenHidden(p)
        THEN [style |-> st1, oldProps |-> old, writes |-> w1, error |-> "none"]
        ELSE
        LET mtx   == p.matrix
            mtxW  == MatrixChanged(old, mtx)
            st2   == IF mtxW
                     THEN [st1 EXCEPT ![o].transform = TransformText(mtx),
                                      ![o].MozTransform = MozTransformText(mtx)]
                     ELSE st1
            w2    == IF mtxW THEN w1 \cup {<<o, "transform">>, <<o, "MozTransform">>} ELSE w1
            old2  == IF mtxW THEN CacheAfterMatrix(old, mtx) ELSE old
        IN  IF old2 = NullProps
            THEN [style |-> st2, oldProps |-> old2, writes |-> w2, error |-> "TypeError"]
            ELSE
            LET alphaW == AlphaChanged(old2, p)
            IN  [style    |-> IF alphaW THEN [st2 EXCEPT ![o].opacity = OpacityText(p.alpha)]
                              ELSE st2,
                 oldProps |-> IF alphaW THEN [old2 EXCEPT !.alpha = p.alpha] ELSE old2,
                 writes   |-> IF alphaW THEN w2 \cup {<<o, "opacity">>} ELSE w2,
                 error    |-> "none"]

-----------------------------------------------------------------------------
(* The stage: its "drawend" listener list and its update cycle.             *)

MaxTicks == 2

\* mutant: the listener is registered without the once flag
Subscription_Persistent == [listener |-> "_handleDrawEnd", scope |-> "this", once |-> FALSE]

\* stage.on("drawend", this._handleDrawEnd, this, true): the arguments
Subscription == [listener |-> "_handleDrawEnd", scope |-> "this", once |-> TRUE]

\* stage.on: at most one registration per subscriber
StageOn(ls, sub) ==
    IF \E i \in 1..Len(ls) : ls[i].listener = sub.listener /\ ls[i].scope = sub.scope
    THEN ls
    ELSE Append(ls, sub)

\* mutant: every tick adds a listener of its own to the stage
NodeTick_Appends(ls, att) == IF att THEN Append(ls, Subscription) ELSE ls

\* _tick: stage && stage.on("drawend", this._handleDrawEnd, this, true)
NodeTick(ls, att) == IF att THEN StageOn(ls, Subscription) ELSE ls

\* mutant: the tick is passed on only by a node that has a stage
SuperTick_OnStage(att) == IF att THEN "super._tick" ELSE "void"

\* _tick: super._tick(evtObj), with or without a stage
SuperTick(att) == "super._tick"

\* the listeners left after a dispatch that ran the first done of ls to the
\* end: those registered with once are removed
Remaining(ls, done) ==
    SelectSeq(SubSeq(ls, 1, done), LAMBDA l : ~l.once) \o SubSeq(ls, done + 1, Len(ls))

\* mutant: the element is updated in draw
NodeDraw_Syncs(st) ==
    LET r == HandleDrawEnd(htmlElement, oldProps, props, st)
    IN  [result |-> "true", style |-> r.style, writes |-> r.writes]

\* draw: returns true, writes nothing
NodeDraw(st) == [result |-> "true", style |-> st, writes |-> {}]

\* mutant: clone returns a copy
NodeClone_Returns == "[object DOMElement]"

\* clone: throw("DOMElement cannot be cloned.")
NodeClone == "DOMElement cannot be cloned."

StubMethods ==
    {"cache", "uncache", "updateCache", "hitTest", "localToGlobal", "globalToLocal",
     "localToLocal"}

\* mutant: uncache drops the cache of the last applied values
NodeStub_Uncache(m, old) ==
    [result |-> "undefined", writes |-> {},
     oldProps |-> IF m = "uncache" THEN NullProps ELSE old]

\* cache, uncache, updateCache, hitTest, localToGlobal, globalToLocal,
\* localToLocal: empty bodies; the call returns undefined
NodeStub(m, old) == [result |-> "undefined", writes |-> {}, oldProps |-> old]

\* mutant: a node whose snapshot is hidden is not visible
IsVisible_Snapshot(o, p) == IF o # Null /\ p.visible THEN "true" ELSE "false"

\* isVisible: return this.htmlElement != null
IsVisible(o, p) == IF o # Null THEN "true" ELSE "false"

\* dispatchEvent("drawend"): the listeners run in order from the i-th on; acc
\* is the state so far; a listener that throws ends the dispatch
RECURSIVE Dispatch(_, _, _)
Dispatch(ls, i, acc) ==
    IF i > Len(ls) \/ acc.error # "none" THEN acc
    ELSE LET r == HandleDrawEnd(htmlElement, acc.oldProps, props, acc.style)
         IN  Dispatch(ls, i + 1,
                      [style |-> r.style, oldProps |-> r.oldProps,
                       writes |-> acc.writes \cup r.writes,
                       error |-> r.error, syncs |-> acc.syncs + 1])

-----------------------------------------------------------------------------
(* The values the display list feeds the node.                              *)

MtxB == Matrix(Num(FALSE, 0, 12345), Num(FALSE, 0, 0), Num(TRUE, 0, 50000),
               Num(FALSE, 2, 0), Num(FALSE, 3, 70000), Num(TRUE, 2, 20000))

Matrices == {Identity, MtxB}

Alphas == {Num(FALSE, 1, 0), Num(FALSE, 0, 50000)}

Snapshots == [matrix : Matrices, alpha : Alphas, visible : BOOLEAN]

\* a DisplayObject after construction: identity, alpha 1, visible
DefaultProps == [matrix |-> Identity, alpha |-> Num(FALSE, 1, 0), visible |-> TRUE]

\* mutant: the node keeps the default of a display object
NewMouseEnabled_Default == TRUE

\* constructor: this.mouseEnabled = false
NewMouseEnabled == FALSE

NoPeer == [isNull |-> TRUE]

NoSync == [on |-> FALSE, ran |-> FALSE, snapChanged |-> FALSE, elChanged |-> FALSE]

\* the record of an operation: which it was, what it returned or threw, the
\* style properties it wrote, the number of _handleDrawEnd runs it made and,
\* when it made one, whether the snapshot and htmlElement were unchanged since
\* the run before
Did(op, result, writes, syncs) ==
    [op |-> op, result |-> result, writes |-> writes, syncs |-> syncs,
     snapSame |-> syncs > 0 /\ sinceSync.ran /\ ~sinceSync.snapChanged,
     elSame |-> syncs > 0 /\ sinceSync.ran /\ ~sinceSync.elChanged]

-----------------------------------------------------------------------------
(* State after new DOMElement("e1").                                        *)

Init ==
    /\ htmlElement = "e1"
    /\ oldProps = NullProps
    /\ props = DefaultProps
    /\ style = [e \in Elements |-> IF e = "e1" THEN ConstructedStyle ELSE FreshStyle]
    /\ attached = FALSE
    /\ listeners = <<>>
    /\ pc = "idle"
    /\ ticks = 0
    /\ sinceSync = NoSync
    /\ last = [op |-> "new", result |-> "void", writes |-> {}, syncs |-> 0,
               snapSame |-> FALSE, elSame |-> FALSE]
    /\ mouseEnabled = NewMouseEnabled
    /\ peer = NoPeer

\* container.addChild(node) below a stage
AddToStage ==
    /\ pc = "idle"
    /\ ~attached
    /\ attached' = TRUE
    /\ last' = Did("edit", "void", {}, 0)
    /\ UNCHANGED <<htmlElement, oldProps, props, style, listeners, pc, ticks, sinceSync, mouseEnabled, peer>>

\* container.removeChild(node): the node has no stage any more
RemoveFromStage ==
    /\ pc = "idle"
    /\ attached
    /\ attached' = FALSE
    /\ last' = Did("edit", "void", {}, 0)
    /\ UNCHANGED <<htmlElement, oldProps, props, style, listeners, pc, ticks, sinceSync, mouseEnabled, peer>>

\* node.htmlElement = e, or = null
SetHtmlElement ==
    \E e \in (Elements \cup {Null}) \ {htmlElement} :
        /\ pc = "idle"
        /\ htmlElement' = e
        /\ last' = Did("edit", "void", {}, 0)
        /\ sinceSync' = [sinceSync EXCEPT !.elChanged = sinceSync.ran]
        /\ UNCHANGED <<oldProps, props, style, attached, listeners, pc, ticks, mouseEnabled, peer>>

\* the node's or an ancestor's transform, alpha or visible changes
SetProps ==
    \E p \in Snapshots \ {props} :
        /\ pc = "idle"
        /\ props' = p
        /\ last' = Did("edit", "void", {}, 0)
        /\ sinceSync' = [sinceSync EXCEPT !.snapChanged = sinceSync.ran]
        /\ UNCHANGED <<htmlElement, oldProps, style, attached, listeners, pc, ticks, mouseEnabled, peer>>

\* the stage ticks its display list and the tick reaches the node (update with
\* tickOnUpdate, or stage.tick())
StageTick ==
    /\ pc = "idle"
    /\ ticks < MaxTicks
    /\ attached
    /\ ticks' = ticks + 1
    /\ listeners' = NodeTick(listeners, attached)
    /\ last' = Did("_tick", SuperTick(attached), {}, 0)
    /\ UNCHANGED <<htmlElement, oldProps, props, style, attached, pc, sinceSync, mouseEnabled, peer>>

\* a tick reaches the node while it has no stage (node._tick(evt), or the tick
\* of a container that is on no stage)
DetachedTick ==
    /\ pc = "idle"
    /\ ~attached
    /\ listeners' = NodeTick(listeners, attached)
    /\ last' = Did("_tick", SuperTick(attached), {}, 0)
    /\ UNCHANGED <<htmlElement, oldProps, props, style, attached, pc, ticks, sinceSync,
                   mouseEnabled, peer>>

\* the stage draws the canvas; an attached node with isVisible() gets draw()
StageDraw ==
    /\ pc = "idle"
    /\ pc' = "drawn"
    /\ IF attached /\ htmlElement # Null
       THEN LET r == NodeDraw(style)
            IN  /\ style' = r.style
                /\ last' = Did("draw", r.result, r.writes, 0)
       ELSE /\ style' = style
            /\ last' = Did("stage.draw", "void", {}, 0)
    /\ UNCHANGED <<htmlElement, oldProps, props, attached, listeners, ticks, sinceSync, mouseEnabled, peer>>

\* the stage dispatches "drawend": every listener runs, the once-listeners
\* that returned are removed
StageDrawEnd ==
    /\ pc = "drawn"
    /\ pc' = "idle"
    /\ ticks' = 0
    /\ LET r == Dispatch(listeners, 1,
                         [style |-> style, oldProps |-> oldProps, writes |-> {},
                          error |-> "none", syncs |-> 0])
           done == IF r.error = "none" THEN r.syncs ELSE r.syncs - 1
       IN  /\ style' = r.style
           /\ oldProps' = r.oldProps
           /\ listeners' = Remaining(listeners, done)
           /\ sinceSync' = IF r.syncs > 0 /\ sinceSync.on
                           THEN [NoSync EXCEPT !.on = TRUE, !.ran = TRUE]
                           ELSE sinceSync
           /\ last' = Did("drawend", IF r.error = "none" THEN "void" ELSE r.error,
                          r.writes, r.syncs)
    /\ UNCHANGED <<htmlElement, props, attached, mouseEnabled, peer>>

\* node.clone()
Clone ==
    /\ pc = "idle"
    /\ last' = Did("clone", NodeClone, {}, 0)
    /\ UNCHANGED <<htmlElement, oldProps, props, style, attached, listeners, pc, ticks, sinceSync, mouseEnabled, peer>>

Next ==
    \/ AddToStage
    \/ RemoveFromStage
    \/ SetHtmlElement
    \/ SetProps
    \/ StageTick
    \/ StageDraw
    \/ StageDrawEnd
    \/ Clone
    \/ DetachedTick

Spec == Init /\ [][Next]_vars

-----------------------------------------------------------------------------
(* The same node with the history of changes between synchronization runs   *)
(* kept.                                                                    *)

InitHistory ==
    /\ htmlElement = "e1"
    /\ oldProps = NullProps
    /\ props = DefaultProps
    /\ style = [e \in Elements |-> IF e = "e1" THEN ConstructedStyle ELSE FreshStyle]
    /\ attached = FALSE
    /\ listeners = <<>>
    /\ pc = "idle"
    /\ ticks = 0
    /\ sinceSync = [NoSync EXCEPT !.on = TRUE]
    /\ last = [op |-> "new", result |-> "void", writes |-> {}, syncs |-> 0,
               snapSame |-> FALSE, elSame |-> FALSE]
    /\ mouseEnabled = NewMouseEnabled
    /\ peer = NoPeer

NextHistory ==
    \/ AddToStage
    \/ RemoveFromStage
    \/ SetHtmlElement
    \/ SetProps
    \/ StageTick
    \/ StageDraw
    \/ StageDrawEnd

SpecHistory == InitHistory /\ [][NextHistory]_vars

-----------------------------------------------------------------------------
(* The same node with the calls a client can make on it between two stage   *)
(* updates.                                                                 *)

\* node.cache(), node.uncache(), node.updateCache(), node.hitTest(),
\* node.localToGlobal(), node.globalToLocal(), node.localToLocal()
CallStub ==
    \E m \in StubMethods :
        LET r == NodeStub(m, oldProps)
        IN  /\ pc = "idle"
            /\ oldProps' = r.oldProps
            /\ last' = Did(m, r.result, r.writes, 0)
            /\ UNCHANGED <<htmlElement, props, style, attached, listeners, pc, ticks,
                           sinceSync, mouseEnabled, peer>>

\* node.isVisible()
CallIsVisible ==
    /\ pc = "idle"
    /\ last' = Did("isVisible", IsVisible(htmlElement, props), {}, 0)
    /\ UNCHANGED <<htmlElement, oldProps, props, style, attached, listeners, pc, ticks,
                   sinceSync, mouseEnabled, peer>>

NextCalls ==
    \/ AddToStage
    \/ RemoveFromStage
    \/ SetHtmlElement
    \/ SetProps
    \/ StageTick
    \/ StageDraw
    \/ StageDrawEnd
    \/ CallStub
    \/ CallIsVisible

SpecCalls == Init /\ [][NextCalls]_vars

-----------------------------------------------------------------------------
(* The same node with htmlElement left as the constructor set it.           *)

NextBound ==
    \/ AddToStage
    \/ RemoveFromStage
    \/ SetProps
    \/ StageTick
    \/ StageDraw
    \/ StageDrawEnd

SpecBound == Init /\ [][NextBound]_vars

-----------------------------------------------------------------------------
(* Two DOMElement nodes on one stage, each with an element of its own: the  *)
(* node of the other specifications ("this", element e1) and a second one   *)
(* ("peer", element e2).                                                    *)

\* the peer's stage.on("drawend", this._handleDrawEnd, this, true)
PeerSubscription == [listener |-> "_handleDrawEnd", scope |-> "peer", once |-> TRUE]

\* mutant: every handler works on the element of the first node
Bound_Shared(scope) == htmlElement

\* let o = this.htmlElement, for the node a listener is scoped to
Bound(scope) == IF scope = "this" THEN htmlElement ELSE peer.htmlElement

\* dispatchEvent("drawend") with listeners of both nodes: each runs on its
\* node's element, cache and snapshot
RECURSIVE DispatchAll(_, _, _)
DispatchAll(ls, i, acc) ==
    IF i > Len(ls) \/ acc.error # "none" THEN acc
    ELSE LET mine == ls[i].scope = "this"
             r == HandleDrawEnd(Bound(ls[i].scope),
                                IF mine THEN acc.oldProps ELSE acc.peerOld,
                                IF mine THEN props ELSE peer.props, acc.style)
         IN  DispatchAll(ls, i + 1,
                         [style |-> r.style,
                          oldProps |-> IF mine THEN r.oldProps ELSE acc.oldProps,
                          peerOld |-> IF mine THEN acc.peerOld ELSE r.oldProps,
                          writes |-> acc.writes \cup r.writes,
                          error |-> r.error, syncs |-> acc.syncs + 1])

\* the dispatch of the listener list ls from the current state
DrawEndAll(ls) ==
    DispatchAll(ls, 1, [style |-> style, oldProps |-> oldProps, peerOld |-> peer.oldProps,
                        writes |-> {}, error |-> "none", syncs |-> 0])

\* both nodes constructed and added to the stage
InitPeers ==
    /\ htmlElement = "e1"
    /\ oldProps = NullProps
    /\ props = DefaultProps
    /\ style = [e \in Elements |-> ConstructedStyle]
    /\ attached = TRUE
    /\ listeners = <<>>
    /\ pc = "idle"
    /\ ticks = 0
    /\ sinceSync = NoSync
    /\ last = [op |-> "new", result |-> "void", writes |-> {}, syncs |-> 0,
               snapSame |-> FALSE, elSame |-> FALSE]
    /\ mouseEnabled = NewMouseEnabled
    /\ peer = [htmlElement |-> "e2", oldProps |-> NullProps, props |-> DefaultProps]

\* the tick reaches the peer
PeerTick ==
    /\ pc = "idle"
    /\ listeners' = StageOn(listeners, PeerSubscription)
    /\ last' = Did("_tick", SuperTick(attached), {}, 0)
    /\ UNCHANGED <<htmlElement, oldProps, props, style, attached, pc, ticks, sinceSync,
                   mouseEnabled, peer>>

\* the peer's or one of its ancestors' transform, alpha or visible changes
SetPeerProps ==
    \E p \in Snapshots \ {peer.props} :
        /\ pc = "idle"
        /\ peer' = [peer EXCEPT !.props = p]
        /\ last' = Did("edit", "void", {}, 0)
        /\ UNCHANGED <<htmlElement, oldProps, props, style, attached, listeners, pc, ticks,
                       sinceSync, mouseEnabled>>

\* the stage dispatches "drawend" to the listeners of both nodes
PeersDrawEnd ==
    /\ pc = "drawn"
    /\ pc' = "idle"
    /\ ticks' = 0
    /\ LET r == DrawEndAll(listeners)
           done == IF r.error = "none" THEN r.syncs ELSE r.syncs - 1
       IN  /\ style' = r.style
           /\ oldProps' = r.oldProps
           /\ peer' = [peer EXCEPT !.oldProps = r.peerOld]
           /\ listeners' = Remaining(listeners, done)
           /\ last' = Did("drawend", IF r.error = "none" THEN "void" ELSE r.error,
                          r.writes, r.syncs)
    /\ UNCHANGED <<htmlElement, props, attached, sinceSync, mouseEnabled>>

NextPeers ==
    \/ SetProps
    \/ SetPeerProps
    \/ StageTick
    \/ PeerTick
    \/ StageDraw
    \/ PeersDrawEnd

SpecPeers == InitPeers /\ [][NextPeers]_vars

-----------------------------------------------------------------------------
(* The formatting of the placement string over a wide range of numbers: a   *)
(* node whose matrix holds x in a, d, tx and -x in b, c, ty goes through    *)
(* one stage update.                                                        *)

Negated(x) == [x EXCEPT !.neg = ~x.neg]

\* 300000 = 4 * 2^16 + 37856; 2^31 = 32768 * 2^16
FmtNumbers ==
    [nan : {FALSE}, neg : BOOLEAN, hi : {0, 4, 32767, 32768},
     lo : {0, 2, 3, 37856, 65535}, frac : {0, 12345, 20000, 50000, 70000, 99999}]

InitFmt ==
    /\ htmlElement = "e1"
    /\ oldProps = NullProps
    /\ \E x \in FmtNumbers :
          props = [matrix |-> Matrix(x, Negated(x), Negated(x), x, x, Negated(x)),
                   alpha |-> Num(FALSE, 1, 0), visible |-> TRUE]
    /\ style = [e \in Elements |-> IF e = "e1" THEN ConstructedStyle ELSE FreshStyle]
    /\ attached = FALSE
    /\ listeners = <<>>
    /\ pc = "idle"
    /\ ticks = 0
    /\ sinceSync = NoSync
    /\ last = [op |-> "new", result |-> "void", writes |-> {}, syncs |-> 0,
               snapSame |-> FALSE, elSame |-> FALSE]
    /\ mouseEnabled = NewMouseEnabled
    /\ peer = NoPeer

NextFmt ==
    \/ AddToStage
    \/ StageTick
    \/ StageDraw
    \/ StageDrawEnd

SpecFmt == InitFmt /\ [][NextFmt]_vars

-----------------------------------------------------------------------------
(* What the numeric claims expect, computed on the floor form of a number:  *)
(* <<Q, r, f>> stands for Q * 2^16 + r + f / 10^5 with 0 <= r < 2^16 and    *)
(* 0 <= f < 10^5, Q of either sign.                                         *)

PairInc(p) == IF p[2] + 1 = Base THEN <<p[1] + 1, 0>> ELSE <<p[1], p[2] + 1>>

PairNeg(p) == IF p[2] = 0 THEN <<-p[1], 0>> ELSE <<-p[1] - 1, Base - p[2]>>

FloorForm(x) ==
    IF ~x.neg THEN <<x.hi, x.lo, x.frac>>
    ELSE IF x.frac = 0 THEN PairNeg(<<x.hi, x.lo>>) \o <<0>>
    ELSE PairNeg(PairInc(<<x.hi, x.lo>>)) \o <<FracUnit - x.frac>>

\* the integer part, toward zero, of a number in floor form
TowardZero(ff) ==
    IF ff[1] >= 0 \/ ff[3] = 0 THEN <<ff[1], ff[2]>> ELSE PairInc(<<ff[1], ff[2]>>)

\* t + 0.5, then the integer part toward zero
ExpectedTranslation(t) ==
    LET ff == FloorForm(t)
        s  == IF ff[3] + Half >= FracUnit
              THEN PairInc(<<ff[1], ff[2]>>) \o <<ff[3] + Half - FracUnit>>
              ELSE <<ff[1], ff[2], ff[3] + Half>>
    IN  TowardZero(s)

\* v * 10000, then the integer part toward zero: the count of 1/10000 units of
\* v truncated to 4 decimal digits
ExpectedLinear(v) ==
    LET ff == FloorForm(v)
        lo == ff[2] * n + (ff[3] * n) \div FracUnit
    IN  TowardZero(<<ff[1] * n + lo \div Base, lo % Base, (ff[3] * n) % FracUnit>>)

\* the 32-bit integer e is the integer p
IsInt(e, p) == PairOfInt(e) = p

\* the 32-bit integer e is the integer p reduced modulo 2^32
IsInt32Of(e, p) == PairOfInt(e)[2] = p[2] /\ (PairOfInt(e)[1] - p[1]) % Base = 0

TransformWritten == style["e1"].transform # <<>>

\* the translations of the snapshot matrix with the integers printed for them
Translations ==
    {<<props.matrix.tx, style["e1"].transform[6]>>,
     <<props.matrix.ty, style["e1"].transform[7]>>}

\* the linear components of the snapshot matrix with the numbers printed for
\* them, as counts of 1/10000
Linears ==
    {<<props.matrix.a, style["e1"].transform[2]>>,
     <<props.matrix.b, style["e1"].transform[3]>>,
     <<props.matrix.c, style["e1"].transform[4]>>,
     <<props.matrix.d, style["e1"].transform[5]>>}

\* C6 as stated: every translation t is printed as t + 0.5 truncated toward
\* zero; 3.7 is printed as 4, -2.2 as -2 and -0.5 as 0.
C6_AsStated ==
    TransformWritten =>
        \A c \in Translations :
            /\ IsInt(c[2], ExpectedTranslation(c[1]))
            /\ c[1] = Num(FALSE, 3, 70000) => c[2] = 4
            /\ c[1] = Num(TRUE, 2, 20000) => c[2] = -2
            /\ c[1] = Num(TRUE, 0, 50000) => c[2] = 0

\* C6 amended: every translation t is printed as t + 0.5 truncated toward zero
\* and reduced to a signed 32-bit integer (the same integer whenever it lies
\* in [-2^31, 2^31)); 3.7 is printed as 4, -2.2 as -1 and -0.5 as 0.
C6_TranslationRounding ==
    TransformWritten =>
        \A c \in Translations :
            /\ IsInt32Of(c[2], ExpectedTranslation(c[1]))
            /\ ExpectedTranslation(c[1])[1] \in -(Base \div 2) .. (Base \div 2 - 1)
                  => IsInt(c[2], ExpectedTranslation(c[1]))
            /\ c[1] = Num(FALSE, 3, 70000) => c[2] = 4
            /\ c[1] = Num(TRUE, 2, 20000) => c[2] = -1
            /\ c[1] = Num(TRUE, 0, 50000) => c[2] = 0

\* a synchronization printed -1 for the translation -2.2
C6_Witness ==
    /\ TransformWritten
    /\ last.op = "drawend"
    /\ <<htmlElement, "transform">> \in last.writes
    /\ props.matrix.tx = Num(TRUE, 2, 20000)
    /\ style["e1"].transform[6] = -1

\* C7: every linear component v is printed as v truncated toward zero to 4
\* decimal digits, trunc(v * 10000) / 10000, whatever its magnitude.
C7_LinearTruncation ==
    TransformWritten =>
        \A c \in Linears : IsInt(c[2], ExpectedLinear(c[1]))

-----------------------------------------------------------------------------
(* The synchronization claims.  A step is a synchronization cycle when the  *)
(* stage dispatches "drawend" (pc = "drawn") with the handler subscribed;   *)
(* the state after it has last.op = "drawend" and last.syncs > 0.           *)

SyncStep == pc = "drawn" /\ listeners # <<>>

Synced == last.op = "drawend" /\ last.syncs > 0

\* C1 as stated: a synchronization cycle that follows another one with the
\* snapshot unchanged in between writes nothing to the element.
C1_AsStated == (Synced /\ last.snapSame) => last.writes = {}

\* C1 amended: a synchronization cycle that follows another one with the
\* snapshot unchanged and htmlElement not reassigned in between writes nothing
\* to the element.
C1_WriteMinimization == (Synced /\ last.snapSame /\ last.elSame) => last.writes = {}

\* the second of two cycles on a bound element with a visible snapshot and a
\* cache: nothing changed in between, nothing written
C1_Witness ==
    /\ Synced
    /\ last.snapSame
    /\ last.elSame
    /\ htmlElement # Null
    /\ props.visible
    /\ oldProps # NullProps
    /\ last.writes = {}

\* C2: a synchronization cycle with a hidden snapshot writes neither transform
\* nor opacity and leaves the cache as it was; it may write visibility only.
C2_VisibilityGating ==
    [][(SyncStep /\ ~props.visible) =>
          /\ oldProps' = oldProps
          /\ last'.writes \subseteq {<<htmlElement, "visibility">>}
          /\ \A e \in Elements :
                /\ style'[e].transform = style[e].transform
                /\ style'[e].MozTransform = style[e].MozTransform
                /\ style'[e].opacity = style[e].opacity]_vars

\* a cycle with a hidden snapshot whose matrix and alpha differ from the cache
\* wrote the visibility and nothing else
C2_Witness ==
    /\ Synced
    /\ ~props.visible
    /\ htmlElement # Null
    /\ oldProps # NullProps
    /\ ~MatrixEquals(oldProps.matrix, props.matrix)
    /\ ~NumEq(oldProps.alpha, props.alpha)
    /\ last.writes = {<<htmlElement, "visibility">>}

\* C3: the element is written only by the handler that the drawend signal
\* runs, after the canvas draw of the frame; ticks and draw write nothing, and
\* draw returns true.
C3_Ordering ==
    [][/\ last'.writes # {} => (pc = "drawn" /\ pc' = "idle" /\ last'.syncs > 0)
       /\ style' # style => pc = "drawn"
       /\ last'.op \in {"_tick", "draw"} => (last'.writes = {} /\ style' = style)
       /\ last'.op = "draw" => last'.result = "true"]_vars

\* the tick and the draw of a frame wrote nothing, its drawend wrote the
\* transform
C3_Witness ==
    /\ Synced
    /\ pc = "idle"
    /\ htmlElement # Null
    /\ <<htmlElement, "transform">> \in last.writes

\* C4: whatever the number of ticks since the last drawend, the stage holds at
\* most one drawend listener of the node, and a drawend runs the handler at
\* most once.
C4_OneSubscription ==
    /\ Cardinality({i \in 1..Len(listeners) :
                       /\ listeners[i].listener = "_handleDrawEnd"
                       /\ listeners[i].scope = "this"}) <= 1
    /\ last.syncs <= 1

\* two ticks reached the attached node since the last drawend, one listener
C4_Witness ==
    /\ attached
    /\ ticks >= 2
    /\ Len(listeners) = 1

\* C5: once the node is off the stage, no drawend reaches its handler and the
\* element is not written.
C5_NoSyncAfterRemoval ==
    [][~attached => (last'.syncs = 0 /\ last'.writes = {})]_vars

\* C8: after a synchronization cycle with a visible snapshot, the cache holds
\* what the bound element's transform and opacity were last set to.
C8_CacheMirrorsElement ==
    (Synced /\ props.visible /\ htmlElement # Null /\ oldProps # NullProps) =>
        /\ style[htmlElement].transform = TransformText(oldProps.matrix)
        /\ style[htmlElement].opacity = OpacityText(oldProps.alpha)

\* C9: a synchronization cycle with no element bound throws nothing, writes to
\* no element and leaves the cache as it was.
C9_MissingBinding ==
    [][(SyncStep /\ htmlElement = Null) =>
          /\ last'.result = "void"
          /\ last'.syncs = 1
          /\ last'.writes = {}
          /\ style' = style
          /\ oldProps' = oldProps]_vars

\* a cycle ran with the element cleared after an earlier cycle had filled the
\* cache
C9_Witness ==
    /\ Synced
    /\ htmlElement = Null
    /\ oldProps # NullProps
    /\ last.result = "void"

\* C10: clone throws "DOMElement cannot be cloned." in every state and changes
\* nothing.
C10_CloneFails ==
    [][last'.op = "clone" =>
          /\ last'.result = "DOMElement cannot be cloned."
          /\ UNCHANGED <<htmlElement, oldProps, props, style, attached, listeners>>]_vars

\* clone was called with no element bound, a cache and a pending subscription
C10_Witness ==
    /\ last.op = "clone"
    /\ last.result = "DOMElement cannot be cloned."
    /\ htmlElement = Null
    /\ oldProps # NullProps
    /\ listeners # <<>>

\* C11: cache, uncache, updateCache, hitTest, localToGlobal, globalToLocal and
\* localToLocal, called any number of times in any order and state, raise no
\* error, write nothing to any element and leave htmlElement, the cache and
\* the drawend subscription as they were.
C11_StubsDoNothing ==
    [][last'.op \in StubMethods =>
          /\ last'.result = "undefined"
          /\ last'.writes = {}
          /\ UNCHANGED <<htmlElement, oldProps, style, listeners, attached, props>>]_vars

\* uncache was called on a bound node with a cache and a pending subscription
C11_Witness ==
    /\ last.op = "uncache"
    /\ last.result = "undefined"
    /\ htmlElement # Null
    /\ oldProps # NullProps
    /\ style[htmlElement].transform # <<>>
    /\ listeners # <<>>

\* C12: isVisible returns true exactly when htmlElement is not null, after
\* any sequence of reassignments and clearings, whatever the snapshot's
\* visible and alpha and whatever the element's style.
C12_IsVisible ==
    last.op = "isVisible" =>
        /\ last.result \in {"true", "false"}
        /\ last.result = "true" <=> htmlElement # Null

\* isVisible returned true on a node rebound to the second element, with a
\* hidden snapshot of alpha 0.5 and the element's visibility "hidden"
C12_Witness ==
    /\ last.op = "isVisible"
    /\ last.result = "true"
    /\ htmlElement = "e2"
    /\ ~props.visible
    /\ props.alpha = Num(FALSE, 0, 50000)
    /\ style["e2"].visibility = "hidden"

Reverse(ls) == [i \in 1..Len(ls) |-> ls[Len(ls) + 1 - i]]

Subscribed(scope) == \E i \in 1..Len(listeners) : listeners[i].scope = scope

\* C13: with two nodes on one stage, a drawend leaves the same element
\* styles and caches whatever the order of the two handlers, and a node's
\* handler changes only the node's own element and cache: what a drawend does
\* to them does not depend on the other node being subscribed, and without
\* the node's subscription they stay as they were.
C13_Independence ==
    [][pc = "drawn" =>
          /\ style' = DrawEndAll(Reverse(listeners)).style
          /\ oldProps' = DrawEndAll(Reverse(listeners)).oldProps
          /\ peer'.oldProps = DrawEndAll(Reverse(listeners)).peerOld
          /\ IF Subscribed("this")
             THEN /\ style'["e1"] = DrawEndAll(<<Subscription>>).style["e1"]
                  /\ oldProps' = DrawEndAll(<<Subscription>>).oldProps
             ELSE /\ style'["e1"] = style["e1"]
                  /\ oldProps' = oldProps
          /\ IF Subscribed("peer")
             THEN /\ style'["e2"] = DrawEndAll(<<PeerSubscription>>).style["e2"]
                  /\ peer'.oldProps = DrawEndAll(<<PeerSubscription>>).peerOld
             ELSE /\ style'["e2"] = style["e2"]
                  /\ peer' = peer]_vars

\* a drawend ran the handlers of both nodes, whose snapshots differ, and
\* each wrote the transform of its own element
C13_Witness ==
    /\ peer # NoPeer
    /\ last.op = "drawend"
    /\ last.syncs = 2
    /\ props.visible
    /\ peer.props.visible
    /\ props.matrix # peer.props.matrix
    /\ {<<"e1", "transform">>, <<"e2", "transform">>} \subseteq last.writes
    /\ style["e1"].transform = TransformText(props.matrix)
    /\ style["e2"].transform = TransformText(peer.props.matrix)

\* C14: mouseEnabled is false in every reachable state: the constructor sets
\* it to false and no operation of the node sets it to true.
C14_MouseDisabled == mouseEnabled = FALSE

\* mouseEnabled is false after the node was added to the stage, rebound to
\* the second element and synchronized with it
C14_Witness ==
    /\ ~mouseEnabled
    /\ Synced
    /\ attached
    /\ htmlElement = "e2"
    /\ oldProps # NullProps
    /\ <<"e2", "transform">> \in last.writes

\* C15: for a node whose htmlElement is the one of its construction, after
\* every synchronization cycle with a visible snapshot the element's
\* visibility is "visible", its transform is the formatted snapshot matrix
\* and its opacity the formatted snapshot alpha, whatever changes and
\* hide/show transitions came before.
C15_Convergence ==
    (Synced /\ props.visible) =>
        /\ htmlElement = "e1"
        /\ style["e1"].visibility = "visible"
        /\ style["e1"].transform = TransformText(props.matrix)
        /\ style["e1"].MozTransform = MozTransformText(props.matrix)
        /\ style["e1"].opacity = OpacityText(props.alpha)

\* a cycle on a node that had been synchronized and then hidden: it wrote the
\* visibility and the transform of a matrix changed since the last visible
\* cycle
C15_Witness ==
    /\ Synced
    /\ props.visible
    /\ last.writes =
          {<<"e1", "visibility">>, <<"e1", "transform">>, <<"e1", "MozTransform">>}
    /\ props.matrix = MtxB
    /\ style["e1"].transform = TransformText(MtxB)

\* C16: after htmlElement is reassigned to a different element (here the
\* second one, e2), the next synchronization cycle with a visible snapshot
\* leaves the current transform and opacity written on the newly bound
\* element, also when the snapshot equals what was last written to the
\* element bound before.
C16_Rebinding ==
    (Synced /\ props.visible /\ htmlElement = "e2") =>
        /\ style["e2"].transform = TransformText(props.matrix)
        /\ style["e2"].opacity = OpacityText(props.alpha)

\* C17: a synchronization cycle with a visible snapshot on a bound element
\* writes the opacity exactly when the snapshot alpha differs from the cached
\* alpha (an empty cache differs from every alpha), whether or not it writes
\* the transform, and leaves the cached alpha equal to the snapshot alpha;
\* with an empty cache it writes both transform and opacity; no cycle fails
\* on an empty cache.
C17_OpacityStep ==
    [][/\ last'.result # "TypeError"
       /\ (SyncStep /\ props.visible /\ htmlElement # Null) =>
             LET differs == oldProps = NullProps \/ ~NumEq(oldProps.alpha, props.alpha)
                 written == <<htmlElement, "opacity">> \in last'.writes
             IN  /\ written <=> differs
                 /\ style'[htmlElement].opacity =
                       IF differs THEN OpacityText(props.alpha)
                       ELSE style[htmlElement].opacity
                 /\ oldProps' # NullProps
                 /\ NumEq(oldProps'.alpha, props.alpha)
                 /\ oldProps = NullProps =>
                       <<htmlElement, "transform">> \in last'.writes]_vars

\* a cycle with a cache wrote the opacity and not the transform: the alpha
\* had changed, the matrix had not
C17_Witness ==
    /\ Synced
    /\ props.visible
    /\ htmlElement # Null
    /\ last.writes = {<<htmlElement, "opacity">>}
    /\ style[htmlElement].opacity = OpacityText(Num(FALSE, 0, 50000))

\* the matrix read through the cache now
CachedMatrix == Deref(oldProps.matrix, props.matrix)

\* C18: the cache holds a copy of the matrix it was given: a change of the
\* snapshot leaves the matrix read through the cache as it was, a cycle that
\* writes the transform leaves the snapshot's matrix in the cache, and a
\* cycle with a visible snapshot whose matrix differs from the cached one
\* writes the transform.
C18_ValueCopy ==
    [][/\ (props' # props /\ oldProps # NullProps) =>
             /\ oldProps' # NullProps
             /\ Deref(oldProps'.matrix, props'.matrix) = CachedMatrix
       /\ (SyncStep /\ htmlElement # Null /\ <<htmlElement, "transform">> \in last'.writes)
             => Deref(oldProps'.matrix, props.matrix) = props.matrix
       /\ (/\ SyncStep
           /\ props.visible
           /\ htmlElement # Null
           /\ oldProps # NullProps
           /\ ~MatrixEquals(CachedMatrix, props.matrix))
             => <<htmlElement, "transform">> \in last'.writes]_vars

\* the snapshot's matrix was changed after a cycle that had written the
\* transform, and the next cycle found it different from the cache: it wrote
\* the transform and nothing else
C18_Witness ==
    /\ Synced
    /\ props.visible
    /\ htmlElement # Null
    /\ last.writes = {<<htmlElement, "transform">>, <<htmlElement, "MozTransform">>}
    /\ props.matrix = MtxB
    /\ oldProps.matrix = MtxB

\* C19: a tick that reaches the node while it has no stage registers no
\* listener and is passed on to the base node; a drawend that ran the handler
\* leaves it unsubscribed; a drawend with no tick of the node on its stage
\* since the drawend before runs no synchronization and writes nothing.
C19_SubscriptionPerCycle ==
    [][/\ (last'.op = "_tick" /\ ~attached) =>
             /\ listeners' = listeners
             /\ last'.result = "super._tick"
             /\ last'.writes = {}
       /\ last'.op = "_tick" => last'.result = "super._tick"
       /\ (pc = "drawn" /\ last'.syncs > 0) => listeners' = <<>>
       /\ (pc = "drawn" /\ ticks = 0) =>
             /\ last'.syncs = 0
             /\ last'.writes = {}
             /\ style' = style
             /\ oldProps' = oldProps]_vars

\* a drawend ran no synchronization on the node on its stage, which had been
\* synchronized before and not ticked since, although the snapshot's matrix
\* had changed
C19_Witness ==
    /\ last.op = "drawend"
    /\ last.syncs = 0
    /\ attached
    /\ ticks = 0
    /\ htmlElement # Null
    /\ props.visible
    /\ oldProps # NullProps
    /\ ~MatrixEquals(oldProps.matrix, props.matrix)
    /\ style[htmlElement].transform = TransformText(oldProps.matrix)

=============================================================================
